---- MODULE Spec2Model ----
(***************************************************************************)
(* Model of the table-of-contents slice of the blog repository:            *)
(*   - slugify          (lib heading utilities and components/MDXHeading)  *)
(*   - extractHeadings  (lib heading utilities)                            *)
(*   - extractText, H2..H6 (components/MDXHeading)                         *)
(*   - TableOfContents  (client component)                                 *)
(* A string is a sequence of one-character strings.                        *)
(***************************************************************************)
EXTENDS Integers, Sequences, FiniteSets, TLC

VARIABLES
    pc,        \* position of the run under way
    impl,      \* which copy of slugify is applied: "lib" or "mdx"
    input,     \* slugify: the argument
    slug,      \* slugify: the result
    reslug,    \* slugify: the result of slugifying the result
    content,   \* extractHeadings: the argument
    matches,   \* extractHeadings: Array.from(content.matchAll(headingRegex))
    headings,  \* extractHeadings: the result
    node,      \* extractText: the argument, a ReactNode
    textOut,   \* extractText: the result
    calls,     \* extractText: the calls still to be made, innermost first
    document,  \* the rendered heading elements, in tree order
    pageYOffset,       \* window.pageYOffset
    clicked,           \* the list entry whose onClick ran last (0: none yet)
    element,           \* onClick: the element it found (0: null)
    defaultPrevented,  \* onClick: e.preventDefault() was called
    scrollCalls,       \* onClick: the window.scrollTo calls it made
    activeId,          \* TableOfContents: the state set by setActiveId
    phase,             \* TableOfContents: where its effect stands
    effectHeadings,    \* the headings the effect that ran last closed over
    observed,          \* the elements the observer of that effect observes
    stale,             \* the elements the observers of earlier effects observe
    files,             \* the post page: the names fs.readdir(postsDir) returns
    staticParams,      \* the post page: what generateStaticParams returned
    slugParam,         \* BlogPost: the slug of its params
    page               \* BlogPost: what it ended in

slugVars == <<impl, input, slug, reslug>>
headVars == <<content, matches, headings>>
textVars == <<node, textOut, calls>>
trackVars == <<activeId, phase, effectHeadings, observed, stale>>
tocVars == <<document, pageYOffset, clicked, element, defaultPrevented, scrollCalls,
             trackVars>>
pageVars == <<files, staticParams, slugParam, page>>
vars == <<pc, slugVars, headVars, textVars, tocVars, pageVars>>

\* the values of the variables of a function that is not being run
SlugIdle == impl = "lib" /\ input = <<>> /\ slug = <<>> /\ reslug = <<>>
HeadIdle == content = <<>> /\ matches = <<>> /\ headings = <<>>
TextIdle == node = [kind |-> "nullish"] /\ textOut = <<>> /\ calls = <<>>
TocIdle ==
    /\ document = <<>> /\ pageYOffset = 0 /\ clicked = 0 /\ element = 0
    /\ defaultPrevented = FALSE /\ scrollCalls = <<>>
    /\ activeId = <<>> /\ phase = "mounted" /\ effectHeadings = <<>>
    /\ observed = {} /\ stale = {}

PageIdle == files = <<>> /\ staticParams = <<>> /\ slugParam = <<>> /\ page = "none"

----------------------------------------------------------------------------
(* Bounds of the model                                                     *)

MaxSlugLen == 4
MaxLines == 2
MaxWraps == 3
MaxHeadings == 2
MaxFiles == 2

----------------------------------------------------------------------------
(* Characters and the classes the regular expressions use                  *)

LowerChars == {"a", "b", "c", "n"}
UpperChars == {"A", "B", "C"}
DigitChars == {"0", "1", "2", "3", "4", "5", "6", "7", "8", "9"}

\* \w of a JavaScript regular expression without the u flag: [A-Za-z0-9_]
IsWordChar(c) == c \in LowerChars \cup UpperChars \cup DigitChars \cup {"_"}

\* \s: white space and line terminators
WhiteSpaceChars == {" ", "\t", "\n"}

IsWhiteSpace(c) == c \in WhiteSpaceChars

\* what "." refuses and what "$" and "^" (m flag) stop at
IsLineTerminator(c) == c = "\n"

\* one character of String.prototype.toLowerCase
LowerOf(c) ==
    CASE c = "A" -> "a"
      [] c = "B" -> "b"
      [] c = "C" -> "c"
      [] OTHER -> c

StringsUpTo(alphabet, n) == UNION {[1..k -> alphabet] : k \in 0..n}

----------------------------------------------------------------------------
(* The string methods slugify chains                                       *)

toLowerCase(s) == [i \in 1..Len(s) |-> LowerOf(s[i])]

RECURSIVE TrimStart(_)
TrimStart(s) ==
    IF s # <<>> /\ IsWhiteSpace(Head(s)) THEN TrimStart(Tail(s)) ELSE s

RECURSIVE TrimEnd(_)
TrimEnd(s) ==
    IF s # <<>> /\ IsWhiteSpace(s[Len(s)])
    THEN TrimEnd(SubSeq(s, 1, Len(s) - 1))
    ELSE s

trim(s) == TrimEnd(TrimStart(s))

\* length of the longest run of characters of a class starting at s[i]: what
\* a greedy "[class]+" takes there
RECURSIVE RunLen(_, _, _)
RunLen(s, i, class) ==
    IF i <= Len(s) /\ s[i] \in class THEN 1 + RunLen(s, i + 1, class) ELSE 0

\* .replace(/[^\w\s-]/g, ""): every single character outside the class goes
IsSpecialChar(c) == ~(IsWordChar(c) \/ IsWhiteSpace(c) \/ c = "-")

RECURSIVE RemoveSpecialFrom(_, _)
RemoveSpecialFrom(s, i) ==
    IF i > Len(s) THEN <<>>
    ELSE IF IsSpecialChar(s[i]) THEN RemoveSpecialFrom(s, i + 1)
    ELSE <<s[i]>> \o RemoveSpecialFrom(s, i + 1)

RemoveSpecial(s) == RemoveSpecialFrom(s, 1)

\* .replace(/[\s_-]+/g, "-"): each maximal run of the class becomes one "-"
SeparatorChars == WhiteSpaceChars \cup {"_", "-"}

RECURSIVE HyphenateFrom(_, _, _)
HyphenateFrom(s, i, class) ==
    IF i > Len(s) THEN <<>>
    ELSE LET n == RunLen(s, i, class)
         IN  IF n > 0 THEN <<"-">> \o HyphenateFrom(s, i + n, class)
             ELSE <<s[i]>> \o HyphenateFrom(s, i + 1, class)

Hyphenate(s) == HyphenateFrom(s, 1, SeparatorChars)

\* .replace(/^-+|-+$/g, ""): a run of "-" at the start of the input, or a
\* run of "-" that reaches the end of the input, is removed
RECURSIVE StripHyphensFrom(_, _)
StripHyphensFrom(s, i) ==
    IF i > Len(s) THEN <<>>
    ELSE LET n == RunLen(s, i, {"-"})
         IN  IF n > 0 /\ (i = 1 \/ i + n > Len(s))
             THEN StripHyphensFrom(s, i + n)
             ELSE <<s[i]>> \o StripHyphensFrom(s, i + 1)

StripHyphens(s) == StripHyphensFrom(s, 1)

----------------------------------------------------------------------------
(* slugify, the copy of the heading utilities                              *)

slugify_keepUnderscore(text) ==
    StripHyphens(HyphenateFrom(RemoveSpecial(trim(toLowerCase(text))), 1,
                               WhiteSpaceChars \cup {"-"}))

slugify_stripBeforeHyphenate(text) ==
    Hyphenate(StripHyphens(RemoveSpecial(trim(toLowerCase(text)))))

slugify_noLower(text) ==
    StripHyphens(Hyphenate(RemoveSpecial(trim(text))))

slugify(text) ==
    StripHyphens(Hyphenate(RemoveSpecial(trim(toLowerCase(text)))))

(* slugify, the copy of components/MDXHeading                              *)
MDX_slugify_noLower(text) ==
    StripHyphens(Hyphenate(RemoveSpecial(trim(text))))

MDX_slugify(text) ==
    StripHyphens(Hyphenate(RemoveSpecial(trim(toLowerCase(text)))))

SlugifyOf(which, text) ==
    IF which = "lib" THEN slugify(text) ELSE MDX_slugify(text)

----------------------------------------------------------------------------
(* Runs of slugify: the argument is drawn, slugify is applied to it, and   *)
(* then to its own result.                                                 *)

SlugAlphabet == {"a", "B", "1", "_", "-", " ", "!"}

SlugInit ==
    /\ pc = "slug_start"
    /\ PageIdle
    /\ HeadIdle
    /\ TextIdle
    /\ TocIdle
    /\ impl \in {"lib", "mdx"}
    /\ input \in StringsUpTo(SlugAlphabet, MaxSlugLen)
    /\ slug = <<>>
    /\ reslug = <<>>

Slugify ==
    /\ pc = "slug_start"
    /\ slug' = SlugifyOf(impl, input)
    /\ pc' = "slugged"
    /\ UNCHANGED <<impl, input, reslug, headVars, textVars, tocVars, pageVars>>

Reslugify ==
    /\ pc = "slugged"
    /\ reslug' = SlugifyOf(impl, slug)
    /\ pc' = "reslugged"
    /\ UNCHANGED <<impl, input, slug, headVars, textVars, tocVars, pageVars>>

SlugNext == Slugify \/ Reslugify

SlugSpec == SlugInit /\ [][SlugNext]_vars

----------------------------------------------------------------------------
(* The five steps of the slugifier, stated on positions instead of scans   *)

MinOf(S) == CHOOSE x \in S : \A y \in S : x <= y
MaxOf(S) == CHOOSE x \in S : \A y \in S : x >= y

\* s without its longest prefix and its longest suffix made of class
Without(s, class) ==
    LET keep == {i \in 1..Len(s) : s[i] \notin class}
    IN  IF keep = {} THEN <<>> ELSE SubSeq(s, MinOf(keep), MaxOf(keep))

StepLowercase(s) == [i \in 1..Len(s) |-> IF s[i] \in UpperChars THEN LowerOf(s[i]) ELSE s[i]]

StepTrim(s) == Without(s, {" ", "\t", "\n"})

StepRemove(s) ==
    SelectSeq(s, LAMBDA c : IsWordChar(c) \/ c \in {" ", "\t", "\n"} \/ c = "-")

\* every run of characters of class becomes a single hyphen
StepCollapse(s, class) ==
    LET first(i) == s[i] \notin class \/ i = 1 \/ s[i - 1] \notin class
        idx == SelectSeq([i \in 1..Len(s) |-> i], first)
    IN  [k \in 1..Len(idx) |-> IF s[idx[k]] \in class THEN "-" ELSE s[idx[k]]]

StepStrip(s) == Without(s, {"-"})

\* the steps as the specification words them: runs of whitespace and hyphens
StepsAsWorded(x) ==
    StepStrip(StepCollapse(StepRemove(StepTrim(StepLowercase(x))), {" ", "\t", "\n", "-"}))

\* the steps with underscores collapsed too
StepsWithUnderscore(x) ==
    StepStrip(StepCollapse(StepRemove(StepTrim(StepLowercase(x))), {" ", "\t", "\n", "-", "_"}))

HasChar(s, class) == \E i \in 1..Len(s) : s[i] \in class

----------------------------------------------------------------------------
(* Claims about slugify, checked under SlugSpec                            *)

\* C1: slugify is idempotent: slugifying a result of slugify returns that
\* result unchanged, for both copies of the function.
C1_Idempotent == pc = "reslugged" => reslug = slug

\* C1 witness: a result that differs from its argument and is not empty has
\* been slugified again.
C1_Witness ==
    pc = "reslugged" /\ slug # input /\ slug # <<>> /\ HasChar(input, {"_"})

\* C2 as claimed: the result is the five steps with runs of whitespace and
\* hyphens (only) collapsed into one hyphen.
C2_FiveStepsAsWorded == pc = "slugged" => slug = StepsAsWorded(input)

\* C2 amended: the result is the five steps, the fourth collapsing every run
\* of whitespace, underscores and hyphens into one hyphen.
C2_FiveStepsWithUnderscore == pc = "slugged" => slug = StepsWithUnderscore(input)

\* C2 witness: an argument on which every step acts (an upper-case letter,
\* surrounding space, a special character, an underscore, a hyphen to strip).
C2_Witness ==
    /\ pc = "slugged"
    /\ HasChar(input, {"B"}) /\ HasChar(input, {"_"}) /\ HasChar(input, {"!"})
    /\ slug # <<>>
    /\ Len(slug) < Len(input)

\* C4: the result holds only word characters that are not upper case and
\* hyphens, neither starts nor ends with a hyphen, and has no two hyphens in
\* a row.
C4_SlugShape ==
    pc = "slugged" =>
        /\ \A i \in 1..Len(slug) :
              \/ slug[i] = "-"
              \/ IsWordChar(slug[i]) /\ slug[i] \notin UpperChars
        /\ slug # <<>> => slug[1] # "-" /\ slug[Len(slug)] # "-"
        /\ \A i \in 1..(Len(slug) - 1) : ~(slug[i] = "-" /\ slug[i + 1] = "-")

\* C4 witness: the argument has an upper-case letter, starts with a hyphen
\* and has two separators in a row, and the result keeps an inner hyphen.
C4_Witness ==
    /\ pc = "slugged"
    /\ input # <<>> /\ input[1] = "-"
    /\ HasChar(input, {"B"})
    /\ HasChar(slug, {"-"})

\* C26: whichever copy of slugify ran, the other copy returns the same
\* string for the same argument.
C26_CopiesAgree ==
    pc # "slug_start" =>
        /\ slug = slugify(input)
        /\ slug = MDX_slugify(input)

\* C26 witness: the copy of the heading components turned "B_1!" into
\* "b-1".
C26_Witness ==
    /\ pc = "slugged"
    /\ impl = "mdx"
    /\ input = <<"B", "_", "1", "!">>
    /\ slug = <<"b", "-", "1">>

----------------------------------------------------------------------------
(* extractHeadings: headingRegex = /^(#{2,6})\s+(.+)$/gm                   *)

MinHashes == 2
MaxHashes == 6

\* "^" under the m flag: the start of the input or just after a line terminator
AtLineStart(s, i) == i = 1 \/ IsLineTerminator(s[i - 1])

\* "$" under the m flag: the end of the input or just before a line terminator
AtLineEnd(s, i) == i > Len(s) \/ IsLineTerminator(s[i])

AllIn(s, from, n, class) == \A q \in from..(from + n - 1) : q <= Len(s) /\ s[q] \in class

\* the ways "(#{lo,hi})[ws]+(.+)$" matches at i: <<k, w, t>> are the lengths
\* taken by the "#" run, by the white space and by ".+"
RegexCandidates(s, i, lo, hi, ws) ==
    UNION {UNION {{<<k, w, t>> : t \in {t \in 1..(Len(s) + 1 - (i + k + w)) :
                                        /\ \A q \in (i + k + w)..(i + k + w + t - 1) :
                                              ~IsLineTerminator(s[q])
                                        /\ AtLineEnd(s, i + k + w + t)}}
                  : w \in {w \in 1..(Len(s) + 1 - (i + k)) : AllIn(s, i + k, w, ws)}}
           : k \in {k \in lo..hi : AllIn(s, i, k, {"#"})}}

headingRegexCandidates_fromOneHash(s, i) ==
    RegexCandidates(s, i, 1, MaxHashes, WhiteSpaceChars)

headingRegexCandidates(s, i) ==
    RegexCandidates(s, i, MinHashes, MaxHashes, WhiteSpaceChars)

\* the three quantifiers are greedy: backtracking tries the longest "#" run
\* first, then the longest white space, then the longest ".+"
Greediest(cands) ==
    CHOOSE c \in cands : \A d \in cands :
        \/ c[1] > d[1]
        \/ c[1] = d[1] /\ c[2] > d[2]
        \/ c[1] = d[1] /\ c[2] = d[2] /\ c[3] >= d[3]

\* the match object of a match at i: index, match[0], match[1], match[2]
MatchObject(s, i, c) ==
    [index |-> i,
     full  |-> SubSeq(s, i, i + c[1] + c[2] + c[3] - 1),
     g1    |-> SubSeq(s, i, i + c[1] - 1),
     g2    |-> SubSeq(s, i + c[1] + c[2], i + c[1] + c[2] + c[3] - 1)]

\* content.matchAll(headingRegex): the matches found scanning from lastIndex,
\* each search resuming where the match before it ended
RECURSIVE MatchAllFrom(_, _)
MatchAllFrom(s, i) ==
    IF i > Len(s) THEN <<>>
    ELSE LET cands == IF AtLineStart(s, i) THEN headingRegexCandidates(s, i) ELSE {}
         IN  IF cands # {}
             THEN LET m == MatchObject(s, i, Greediest(cands))
                  IN  <<m>> \o MatchAllFrom(s, i + Len(m.full))
             ELSE MatchAllFrom(s, i + 1)

matchAll(s) == MatchAllFrom(s, 1)

Reverse(q) == [j \in 1..Len(q) |-> q[Len(q) + 1 - j]]

HeadingOf(match) ==
    LET text == trim(match.g2)
    IN  [id |-> slugify(text), text |-> text, level |-> Len(match.g1)]

extractHeadings_unshift(ms) == Reverse([j \in 1..Len(ms) |-> HeadingOf(ms[j])])

extractHeadings_textIsId(ms) ==
    [j \in 1..Len(ms) |->
        [id |-> slugify(trim(ms[j].g2)), text |-> slugify(trim(ms[j].g2)),
         level |-> Len(ms[j].g1)]]

\* matches.forEach(...): one record pushed per match, in the order of matches
extractHeadings(ms) == [j \in 1..Len(ms) |-> HeadingOf(ms[j])]

----------------------------------------------------------------------------
(* Runs of extractHeadings: the content is drawn as lines joined by "\n"   *)

Hashes(n) == [j \in 1..n |-> "#"]

HashCounts == {0, 1, 2, 3, 6, 7}
LineGaps == {<<>>, <<" ">>}
LineTexts == {<<>>, <<" ">>, <<"a">>, <<"B", "!", " ">>}

LineSet == {Hashes(h) \o g \o t : h \in HashCounts, g \in LineGaps, t \in LineTexts}

RECURSIVE JoinLines(_)
JoinLines(ls) ==
    IF Len(ls) = 0 THEN <<>>
    ELSE IF Len(ls) = 1 THEN ls[1]
    ELSE ls[1] \o <<"\n">> \o JoinLines(Tail(ls))

Contents == {JoinLines(ls) : ls \in UNION {[1..n -> LineSet] : n \in 1..MaxLines}}

HeadInit ==
    /\ pc = "head_start"
    /\ PageIdle
    /\ SlugIdle
    /\ TextIdle
    /\ TocIdle
    /\ content \in Contents
    /\ matches = <<>>
    /\ headings = <<>>

ExtractHeadings ==
    /\ pc = "head_start"
    /\ matches' = matchAll(content)
    /\ headings' = extractHeadings(matches')
    /\ pc' = "head_done"
    /\ UNCHANGED <<slugVars, content, textVars, tocVars, pageVars>>

HeadNext == ExtractHeadings

HeadSpec == HeadInit /\ [][HeadNext]_vars

----------------------------------------------------------------------------
(* Lines of the content, stated on positions                               *)

LineNo(s, p) == 1 + Cardinality({q \in 1..(p - 1) : s[q] = "\n"})

\* the first position of the line that holds position p
LineFirst(s, p) == MaxOf({q \in 1..p : q = 1 \/ s[q - 1] = "\n"})

\* the position just after the last character of the line that holds p
LineStop(s, p) == MinOf({q \in p..(Len(s) + 1) : q > Len(s) \/ s[q] = "\n"})

\* the number of "#" the line that holds p starts with
LeadingHashes(s, p) ==
    LET a == LineFirst(s, p)
    IN  MaxOf({n \in 0..Len(s) : \A q \in a..(a + n - 1) : q <= Len(s) /\ s[q] = "#"})

\* what follows the leading "#" run on the line that holds p
RestOfLine(s, p) ==
    SubSeq(s, LineFirst(s, p) + LeadingHashes(s, p), LineStop(s, p) - 1)

LineFirsts(s) == {q \in 1..Len(s) : q = 1 \/ s[q - 1] = "\n"}

\* a line malformed as a heading: one "#", seven or more, or a run of "#"
\* with text right after it
MalformedLine(s, a) ==
    LET h == LeadingHashes(s, a)
    IN  \/ h = 1
        \/ h >= 7
        \/ h >= 2 /\ a + h < LineStop(s, a) /\ s[a + h] \notin {" ", "\t", "\n"}

\* the positions of the content a match covers
MatchSpan(m) == (m.index)..(m.index + Len(m.full) - 1)

----------------------------------------------------------------------------
(* Claims about extractHeadings, checked under HeadSpec                    *)

\* C5: every record's text is the trimmed remainder of the line that carries
\* its "#" markers, and no two records come from the same line.
C5_TextFromOwnLine ==
    pc = "head_done" =>
        /\ \A j \in 1..Len(headings) :
              headings[j].text = StepTrim(RestOfLine(content, matches[j].index))
        /\ \A j, k \in 1..Len(headings) :
              j # k => LineNo(content, matches[j].index) # LineNo(content, matches[k].index)

\* C6: no record is made from a malformed line (no match covers any part of
\* one), and extractHeadings always returns a list.
C6_MalformedExcluded ==
    pc = "head_done" =>
        /\ \A a \in LineFirsts(content) :
              MalformedLine(content, a) =>
                  \A j \in 1..Len(matches) :
                      MatchSpan(matches[j]) \cap (a..(LineStop(content, a) - 1)) = {}
        /\ Len(headings) \in Nat

\* C7: every record's level is between 2 and 6 and is the number of "#" the
\* matched line starts with.
C7_LevelIsHashCount ==
    pc = "head_done" =>
        \A j \in 1..Len(headings) :
            /\ headings[j].level \in 2..6
            /\ matches[j].index = LineFirst(content, matches[j].index)
            /\ headings[j].level = LeadingHashes(content, matches[j].index)

\* C7 witness: a record of level 6 next to a line of seven "#" that gave none.
C7_Witness ==
    /\ pc = "head_done"
    /\ Len(headings) = 1
    /\ headings[1].level = 6
    /\ headings[1].text = <<"a">>
    /\ \E a \in LineFirsts(content) : LeadingHashes(content, a) = 7

\* C8: the records are in document order: record j is the record of the j-th
\* match, and the line of each match precedes the line of the next.
C8_DocumentOrder ==
    pc = "head_done" =>
        /\ Len(headings) = Len(matches)
        /\ \A j \in 1..Len(headings) :
              /\ headings[j].level = Len(matches[j].g1)
              /\ headings[j].text = StepTrim(matches[j].g2)
        /\ \A j \in 1..(Len(matches) - 1) :
              LineNo(content, matches[j].index) < LineNo(content, matches[j + 1].index)

\* C8 witness: two different records from two lines.
C8_Witness ==
    /\ pc = "head_done"
    /\ Len(headings) >= 2
    /\ headings[1] # headings[2]

\* C9: every record's id is the slug of its text, and its text is the
\* trimmed source text of the match, special characters included.
C9_IdIsSlugOfText ==
    pc = "head_done" =>
        \A j \in 1..Len(headings) :
            /\ headings[j].id = StepsWithUnderscore(headings[j].text)
            /\ headings[j].text = StepTrim(matches[j].g2)
            /\ matches[j].g2 =
                   SubSeq(content, matches[j].index + Len(matches[j].full) - Len(matches[j].g2),
                          matches[j].index + Len(matches[j].full) - 1)

\* C9 witness: a record whose text holds a special character that its id
\* does not.
C9_Witness ==
    /\ pc = "head_done"
    /\ \E j \in 1..Len(headings) :
          /\ HasChar(headings[j].text, {"!"})
          /\ ~HasChar(headings[j].id, {"!"})
          /\ headings[j].id # <<>>

\* C29: every record has a text that is not empty.
C29_TextNotEmpty ==
    pc = "head_done" => \A j \in 1..Len(headings) : headings[j].text # <<>>

----------------------------------------------------------------------------
(* extractText: a ReactNode is a string, a number, an array of nodes, an   *)
(* element (an object with props, whose children may be absent), or        *)
(* something else: null, undefined, a boolean, an object without props.    *)

StringNode(str) == [kind |-> "string", str |-> str]
NumberNode(num) == [kind |-> "number", num |-> num]
ArrayNode(items) == [kind |-> "array", items |-> items]
ElementNode(children) == [kind |-> "element", children |-> children]
NullishNode == [kind |-> "nullish"]
BooleanNode == [kind |-> "boolean"]
ObjectNode == [kind |-> "object"]

DigitChar(d) ==
    CASE d = 0 -> "0" [] d = 1 -> "1" [] d = 2 -> "2" [] d = 3 -> "3" [] d = 4 -> "4"
      [] d = 5 -> "5" [] d = 6 -> "6" [] d = 7 -> "7" [] d = 8 -> "8" [] d = 9 -> "9"

\* String(n) of an integer n
RECURSIVE NatToString(_)
NatToString(n) ==
    IF n < 10 THEN <<DigitChar(n)>> ELSE NatToString(n \div 10) \o <<DigitChar(n % 10)>>

NumberToString(n) == IF n < 0 THEN <<"-">> \o NatToString(-n) ELSE NatToString(n)

\* strs.join(sep)
RECURSIVE Join(_, _)
Join(strs, sep) ==
    IF Len(strs) = 0 THEN <<>>
    ELSE IF Len(strs) = 1 THEN strs[1]
    ELSE strs[1] \o sep \o Join(Tail(strs), sep)

RECURSIVE extractText(_)

extractText_joinWithSpace(children) ==
    IF children.kind = "string" THEN children.str
    ELSE IF children.kind = "number" THEN NumberToString(children.num)
    ELSE IF children.kind = "array"
    THEN Join([k \in 1..Len(children.items) |-> extractText(children.items[k])], <<" ">>)
    ELSE IF children.kind = "element"
    THEN extractText(IF children.children.kind = "nullish"
                     THEN StringNode(<<>>) ELSE children.children)
    ELSE <<>>

\* extractText with the items of an array taken last to first
extractText_lastFirst(children) ==
    IF children.kind = "string" THEN children.str
    ELSE IF children.kind = "number" THEN NumberToString(children.num)
    ELSE IF children.kind = "array"
    THEN Join([k \in 1..Len(children.items) |->
                  extractText(children.items[Len(children.items) + 1 - k])], <<>>)
    ELSE IF children.kind = "element"
    THEN extractText(IF children.children.kind = "nullish"
                     THEN StringNode(<<>>) ELSE children.children)
    ELSE <<>>

extractText(children) ==
    IF children.kind = "string" THEN children.str
    ELSE IF children.kind = "number" THEN NumberToString(children.num)
    ELSE IF children.kind = "array"
    THEN Join([k \in 1..Len(children.items) |-> extractText(children.items[k])], <<>>)
    ELSE IF children.kind = "element"
    THEN extractText(IF children.children.kind = "nullish"
                     THEN StringNode(<<>>) ELSE children.children)
    ELSE <<>>

----------------------------------------------------------------------------
(* Runs of extractText: the argument is a tree of at most MaxWraps         *)
(* wrappings (in an element, or in an array beside a sibling) of a leaf    *)

LeafNodes ==
    {StringNode(<<"a">>), StringNode(<<"b">>), NumberNode(42), NumberNode(-7),
     NullishNode, BooleanNode, ObjectNode, ArrayNode(<<>>)}

SiblingNodes ==
    {StringNode(<<"c">>), ElementNode(StringNode(<<"b">>))}

WrapsOf(t) ==
    {ElementNode(t), ArrayNode(<<t>>)}
        \cup {ArrayNode(<<x, t>>) : x \in SiblingNodes}
        \cup {ArrayNode(<<t, x>>) : x \in SiblingNodes}

RECURSIVE NodesWithin(_)
NodesWithin(w) ==
    IF w = 0 THEN LeafNodes
    ELSE LET T == NodesWithin(w - 1) IN T \cup UNION {WrapsOf(t) : t \in T}

TextInit ==
    /\ pc = "text_start"
    /\ PageIdle
    /\ SlugIdle
    /\ HeadIdle
    /\ TocIdle
    /\ node \in NodesWithin(MaxWraps)
    /\ textOut = <<>>
    /\ calls = <<>>

ExtractText ==
    /\ pc = "text_start"
    /\ textOut' = extractText(node)
    /\ pc' = "text_done"
    /\ UNCHANGED <<slugVars, headVars, node, calls, tocVars, pageVars>>

TextNext == ExtractText

TextSpec == TextInit /\ [][TextNext]_vars

----------------------------------------------------------------------------
(* extractText call by call: the recursion unfolded on a stack of calls    *)

\* the recursive calls that a call on a child makes, in the order made
CallsOf_again(c) ==
    IF c.kind = "array" THEN c.items
    ELSE IF c.kind = "element" THEN <<c>>
    ELSE <<>>

CallsOf(c) ==
    IF c.kind = "array" THEN c.items
    ELSE IF c.kind = "element"
    THEN <<IF c.children.kind = "nullish" THEN StringNode(<<>>) ELSE c.children>>
    ELSE <<>>

\* the text a call returns by itself, without a recursive call
OwnText(c) ==
    IF c.kind = "string" THEN c.str
    ELSE IF c.kind = "number" THEN NumberToString(c.num)
    ELSE <<>>

TextRunInit ==
    /\ pc = "text_call"
    /\ PageIdle
    /\ SlugIdle
    /\ HeadIdle
    /\ TocIdle
    /\ node \in NodesWithin(MaxWraps)
    /\ textOut = <<>>
    /\ calls = <<node>>

\* one call of extractText: it returns its own text or makes its calls
CallExtractText ==
    /\ pc = "text_call"
    /\ calls # <<>>
    /\ textOut' = textOut \o OwnText(Head(calls))
    /\ calls' = CallsOf(Head(calls)) \o Tail(calls)
    /\ UNCHANGED <<pc, slugVars, headVars, node, tocVars, pageVars>>

\* the outermost call returns
ReturnText ==
    /\ pc = "text_call"
    /\ calls = <<>>
    /\ pc' = "text_returned"
    /\ UNCHANGED <<slugVars, headVars, textVars, tocVars, pageVars>>

TextRunNext == CallExtractText \/ ReturnText

\* a call that can run does run
TextRunSpec == TextRunInit /\ [][TextRunNext]_vars /\ WF_vars(TextRunNext)

\* the nodes a tree is made of, itself included
RECURSIVE NodeCount(_)
SumOver(f) == LET RECURSIVE Sum(_)
                  Sum(k) == IF k = 0 THEN 0 ELSE f[k] + Sum(k - 1)
              IN Sum(Len(f))
NodeCount(t) ==
    IF t.kind = "array" THEN 1 + SumOver([k \in 1..Len(t.items) |-> NodeCount(t.items[k])])
    ELSE IF t.kind = "element" THEN 1 + NodeCount(t.children)
    ELSE 1

\* C12: on every finite content tree the run of extractText comes to its
\* return, with the text of the tree as its result, and no call on the way
\* is one that cannot be carried out.
C12_Terminates ==
    /\ <>(pc = "text_returned" /\ textOut = extractText(node))
    /\ [](pc = "text_call" => ENABLED TextRunNext)

\* C12 witness: a run over a tree of three levels that made recursive calls
\* through an element and an array has returned.
C12_Witness ==
    /\ pc = "text_returned"
    /\ node.kind = "element"
    /\ node.children.kind = "array"
    /\ NodeCount(node) >= 4
    /\ textOut # <<>>

----------------------------------------------------------------------------
(* Claims about extractText, checked under TextSpec                        *)

\* the number a string of decimal digits, with an optional sign, denotes
RECURSIVE DigitsValue(_)
DigitsValue(str) ==
    IF str = <<>> THEN 0
    ELSE 10 * DigitsValue(SubSeq(str, 1, Len(str) - 1))
         + (CHOOSE d \in 0..9 : DigitChar(d) = str[Len(str)])

IsDecimalOf(str, n) ==
    LET digits == IF n < 0 THEN Tail(str) ELSE str
    IN  /\ str # <<>>
        /\ n < 0 => str[1] = "-"
        /\ digits # <<>>
        /\ \A i \in 1..Len(digits) : digits[i] \in DigitChars
        /\ Len(digits) > 1 => digits[1] # "0"
        /\ DigitsValue(digits) = (IF n < 0 THEN -n ELSE n)

RECURSIVE ConcatAll(_)
ConcatAll(strs) == IF strs = <<>> THEN <<>> ELSE Head(strs) \o ConcatAll(Tail(strs))

\* C10: extractText returns a string as it is, a number as its decimal
\* string, for an array the concatenation in order of extractText of the
\* items, for an element extractText of its children (the empty string when
\* there are none), and the empty string for anything else.
C10_ExtractTextByShape ==
    pc = "text_done" =>
        /\ node.kind = "string" => textOut = node.str
        /\ node.kind = "number" => IsDecimalOf(textOut, node.num)
        /\ node.kind = "array" =>
              textOut = ConcatAll([k \in 1..Len(node.items) |-> extractText(node.items[k])])
        /\ node.kind = "element" =>
              textOut = (IF node.children.kind = "nullish" THEN <<>>
                         ELSE extractText(node.children))
        /\ node.kind \in {"nullish", "boolean", "object"} => textOut = <<>>

\* C10 witness: an array of two elements, the first holding an array of a
\* number and a string, whose text has been extracted.
C10_Witness ==
    /\ pc = "text_done"
    /\ node.kind = "array"
    /\ Len(node.items) = 2
    /\ node.items[1].kind = "element"
    /\ node.items[1].children.kind = "array"
    /\ textOut = <<"4", "2", "c", "b">>

\* the decimal string of an integer of at most three digits
DecimalOf(n) == CHOOSE str \in StringsUpTo(DigitChars \cup {"-"}, 3) : IsDecimalOf(str, n)

\* the leaves of a tree that carry text, in document order, each as the
\* string it carries; withNumbers tells whether a number leaf carries its
\* decimal string or counts for nothing
RECURSIVE LeafStrings(_, _)
LeafStrings(t, withNumbers) ==
    IF t.kind = "string" THEN <<t.str>>
    ELSE IF t.kind = "number" THEN (IF withNumbers THEN <<DecimalOf(t.num)>> ELSE <<>>)
    ELSE IF t.kind = "array"
    THEN ConcatAll([k \in 1..Len(t.items) |-> LeafStrings(t.items[k], withNumbers)])
    ELSE IF t.kind = "element" THEN LeafStrings(t.children, withNumbers)
    ELSE <<>>

\* C11 as claimed: the result is the concatenation of the string leaves in
\* document order, so two trees with the same string leaves give the same
\* string whatever their shape.
C11_StringLeavesDecide ==
    pc = "text_done" => textOut = ConcatAll(LeafStrings(node, FALSE))

\* C11 amended: the result is the concatenation, in document order, of the
\* string leaves and of the decimal strings of the number leaves, so two
\* trees with the same such leaves give the same string whatever their shape.
C11_TextLeavesDecide ==
    pc = "text_done" => textOut = ConcatAll(LeafStrings(node, TRUE))

\* C11 witness: two strings at different depths of a tree with no number,
\* flattened in document order.
C11_Witness ==
    /\ pc = "text_done"
    /\ node.kind = "array"
    /\ Len(node.items) = 2
    /\ node.items[1].kind = "element"
    /\ node.items[1].children.kind = "array"
    /\ LeafStrings(node, TRUE) = <<<<"c">>, <<"a">>, <<"b">>>>
    /\ textOut = <<"c", "a", "b">>

----------------------------------------------------------------------------
(* The heading components H2..H6 and the rendered document                 *)

\* the heading element carrying the text itself as its id
HeadingElement_textAsId(tag, children) ==
    [tag |-> tag, id |-> extractText(children)]

\* <hN id={slugify(extractText(children))} className="scroll-mt-20">
HeadingElement(tag, children) ==
    [tag |-> tag, id |-> MDX_slugify(extractText(children))]

H2(children) == HeadingElement(2, children)
H3(children) == HeadingElement(3, children)
H4(children) == HeadingElement(4, children)
H5(children) == HeadingElement(5, children)
H6(children) == HeadingElement(6, children)

\* the component the MDX renderer uses for a heading of a level
HeadingComponent(level, children) ==
    CASE level = 2 -> H2(children)
      [] level = 3 -> H3(children)
      [] level = 4 -> H4(children)
      [] level = 5 -> H5(children)
      [] level = 6 -> H6(children)

\* document.getElementById(id): the first element in tree order whose ID is
\* id, or null (0). An element whose id attribute is empty has no ID.
getElementById(doc, id) ==
    LET hits == {j \in 1..Len(doc) : doc[j].id = id}
    IN  IF id = <<>> \/ hits = {} THEN 0 ELSE MinOf(hits)

----------------------------------------------------------------------------
(* Runs of the heading components: one of H2..H6 renders its children      *)

ComponentLeaves ==
    {StringNode(<<"A", " ", "b">>), StringNode(<<"!">>), StringNode(<<"_", "c">>),
     StringNode(<<>>), NumberNode(42), NullishNode}

ComponentChildren ==
    ComponentLeaves
        \cup {ElementNode(t) : t \in ComponentLeaves}
        \cup {ArrayNode(<<t, u>>) : t \in ComponentLeaves, u \in ComponentLeaves}

CompInit ==
    /\ pc = "comp_start"
    /\ PageIdle
    /\ SlugIdle
    /\ HeadIdle
    /\ TocIdle
    /\ node \in ComponentChildren
    /\ textOut = <<>>
    /\ calls = <<>>

\* the component of level n renders its children into the document
RenderComponent(n) ==
    /\ pc = "comp_start"
    /\ LET el == HeadingComponent(n, node)
       IN  document' = <<[tag |-> el.tag, id |-> el.id, offsetTop |-> 0]>>
    /\ pc' = "comp_done"
    /\ UNCHANGED <<slugVars, headVars, textVars, pageYOffset, clicked, element,
                   defaultPrevented, scrollCalls, trackVars, pageVars>>

CompNext == \E n \in MinHashes..MaxHashes : RenderComponent(n)

CompSpec == CompInit /\ [][CompNext]_vars

\* C23: the component of level n, for n from 2 to 6, emits an element of
\* level n whose id is the slug of the text of its children, and the empty
\* string when that text is empty.
C23_ComponentIdIsSlug ==
    [][\A n \in 2..6 :
          RenderComponent(n) =>
              LET text == ConcatAll(LeafStrings(node, TRUE))
              IN  /\ Len(document') = 1
                  /\ document'[1].tag = n
                  /\ document'[1].id = StepsWithUnderscore(text)
                  /\ document'[1].id = MDX_slugify(extractText(node))
                  /\ text = <<>> => document'[1].id = <<>>]_vars

\* C23 witness: H5 rendered the children "A b" and "_c" as an <h5> with the
\* id "a-b-c".
C23_Witness ==
    /\ pc = "comp_done"
    /\ node = ArrayNode(<<StringNode(<<"A", " ", "b">>), StringNode(<<"_", "c">>)>>)
    /\ document = <<[tag |-> 5, id |-> <<"a", "-", "b", "-", "c">>, offsetTop |-> 0]>>

----------------------------------------------------------------------------
(* TableOfContents: the click handler of a list entry                      *)

HeaderOffset == 80

onClickTarget_byText(doc, heading) == getElementById(doc, heading.text)

\* the lookup taking the first element of the document, whatever its id
onClickTarget_first(doc, heading) == IF doc = <<>> THEN 0 ELSE 1

\* const element = document.getElementById(heading.id)
onClickTarget(doc, heading) == getElementById(doc, heading.id)

\* the top of the element taken relative to the document
BoundingTop_inDocument(el, yOffset) == el.offsetTop

\* element.getBoundingClientRect().top: relative to the viewport
BoundingTop(el, yOffset) == el.offsetTop - yOffset

----------------------------------------------------------------------------
(* Runs of the table of contents: the headings prop is extractHeadings of  *)
(* a post whose lines are all well-formed headings; the renderer emits the *)
(* heading elements one by one; the page scrolls; entries are clicked.     *)

TocTexts == {<<"a">>, <<"A">>, <<"_">>, <<"!">>}
TocLevels == {2, 4}
TocLines == {Hashes(l) \o <<" ">> \o t : l \in TocLevels, t \in TocTexts}
TocContents == {JoinLines(ls) : ls \in UNION {[1..n -> TocLines] : n \in 1..MaxHeadings}}

ElementGaps == {40, 250}
PageOffsets == {0, 30}

TocInit ==
    /\ pc = "toc"
    /\ PageIdle
    /\ SlugIdle
    /\ TextIdle
    /\ content \in TocContents
    /\ matches = matchAll(content)
    /\ headings = extractHeadings(matches)
    /\ document = <<>>
    /\ pageYOffset = 0
    /\ clicked = 0
    /\ element = 0
    /\ defaultPrevented = FALSE
    /\ scrollCalls = <<>>
    /\ activeId = <<>>
    /\ phase = "mounted"
    /\ effectHeadings = <<>>
    /\ observed = {}
    /\ stale = {}

\* the renderer emits the element of the next heading of the post, below
\* the elements already there
RenderHeading ==
    /\ pc = "toc"
    /\ phase # "cleaned"
    /\ Len(document) < Len(headings)
    /\ \E gap \in ElementGaps :
          LET h == headings[Len(document) + 1]
              above == IF document = <<>> THEN 0 ELSE document[Len(document)].offsetTop
              el == HeadingComponent(h.level, StringNode(h.text))
          IN  document' = Append(document,
                  [tag |-> el.tag, id |-> el.id, offsetTop |-> above + gap])
    /\ UNCHANGED <<pc, slugVars, headVars, textVars, pageYOffset, clicked, element,
                   defaultPrevented, scrollCalls, trackVars, pageVars>>

\* the reader scrolls the page
Scroll ==
    /\ pc = "toc"
    /\ phase # "cleaned"
    /\ \E y \in PageOffsets \ {pageYOffset} : pageYOffset' = y
    /\ UNCHANGED <<pc, slugVars, headVars, textVars, document, clicked, element,
                   defaultPrevented, scrollCalls, trackVars, pageVars>>

\* onClick of the entry of headings[k]
OnClick(k) ==
    /\ pc = "toc"
    /\ phase # "cleaned"
    /\ clicked' = k
    /\ defaultPrevented' = TRUE
    /\ element' = onClickTarget(document, headings[k])
    /\ scrollCalls' =
          IF element' # 0
          THEN LET offset == HeaderOffset
                   elementPosition == BoundingTop(document[element'], pageYOffset)
                   offsetPosition == elementPosition + pageYOffset - offset
               IN  <<[top |-> offsetPosition, behavior |-> "smooth"]>>
          ELSE <<>>
    /\ UNCHANGED <<pc, slugVars, headVars, textVars, document, pageYOffset, trackVars, pageVars>>

TocNext ==
    \/ RenderHeading
    \/ Scroll
    \/ \E k \in 1..Len(headings) : OnClick(k)

TocSpec == TocInit /\ [][TocNext]_vars

----------------------------------------------------------------------------
(* Claims about anchors, checked under TocSpec                             *)

AlnumChars == LowerChars \cup UpperChars \cup DigitChars

\* C3 as claimed: when the entry of a text that holds a word character is
\* clicked, every element that carries the slug of that text as its id is
\* the element the lookup finds.
C3_AnchorResolves ==
    [][\A k \in 1..Len(headings) :
          OnClick(k) =>
              \A j \in 1..Len(document) :
                  (/\ HasChar(headings[k].text, AlnumChars \cup {"_"})
                   /\ document[j].id = StepsWithUnderscore(headings[k].text))
                      => element' = j]_vars

\* C3 amended: when the entry of a text that holds a letter or a digit is
\* clicked, the first element of the document that carries the slug of that
\* text as its id is the element the lookup finds.
C3_FirstAnchorResolves ==
    [][\A k \in 1..Len(headings) :
          OnClick(k) =>
              \A j \in 1..Len(document) :
                  (/\ HasChar(headings[k].text, AlnumChars)
                   /\ document[j].id = StepsWithUnderscore(headings[k].text)
                   /\ \A i \in 1..(j - 1) : document[i].id # document[j].id)
                      => element' = j]_vars

\* C3 witness: the entry of "A" was clicked and the lookup found the second
\* element of the document, which carries the id "a".
C3_Witness ==
    /\ clicked # 0
    /\ headings[clicked].text = <<"A">>
    /\ element = 2
    /\ document[element].id = <<"a">>
    /\ scrollCalls # <<>>

\* C19: a click on an entry whose target element exists suppresses the
\* default navigation and requests one smooth scroll, to the offset of the
\* element in the document (its top in the viewport plus the scroll offset
\* of the page) less 80.
C19_ScrollToTarget ==
    [][\A k \in 1..Len(headings) : \A j \in 1..Len(document) :
          (/\ OnClick(k)
           /\ headings[k].id # <<>>
           /\ document[j].id = headings[k].id
           /\ \A i \in 1..(j - 1) : document[i].id # headings[k].id)
              => /\ defaultPrevented'
                 /\ scrollCalls' = <<[top |-> document[j].offsetTop - 80,
                                      behavior |-> "smooth"]>>]_vars

\* C19 witness: with the page scrolled by 30, the entry of the second
\* element, 290 down the document, was clicked and one smooth scroll to 210
\* was requested.
C19_Witness ==
    /\ pageYOffset = 30
    /\ clicked = 2
    /\ element = 2
    /\ Len(document) = 2
    /\ document[2].offsetTop = 290
    /\ defaultPrevented
    /\ scrollCalls = <<[top |-> 210, behavior |-> "smooth"]>>

----------------------------------------------------------------------------
(* TableOfContents: the list it renders                                    *)

\* the indentation class of an entry, by the level of its heading
indentClass(level) ==
    IF level = 2 THEN "pl-0"
    ELSE IF level = 3 THEN "pl-3"
    ELSE IF level = 4 THEN "pl-6"
    ELSE "pl-9"

\* isActive by the text of the heading
isActive_byText(active, heading) == active = heading.text

\* const isActive = activeId === heading.id
isActive(active, heading) == active = heading.id

\* the <li> of a heading
ListEntry(heading, active) ==
    [key |-> heading.id,
     className |-> indentClass(heading.level),
     href |-> <<"#">> \o heading.id,
     isActive |-> isActive(active, heading),
     text |-> heading.text]

\* TableOfContents without the early return
TableOfContents_alwaysList(hs, active) ==
    [null |-> FALSE, entries |-> [k \in 1..Len(hs) |-> ListEntry(hs[k], active)]]

\* TableOfContents with the entries last to first
TableOfContents_lastFirst(hs, active) ==
    IF Len(hs) = 0 THEN [null |-> TRUE, entries |-> <<>>]
    ELSE [null |-> FALSE,
          entries |-> [k \in 1..Len(hs) |-> ListEntry(hs[Len(hs) + 1 - k], active)]]

\* what TableOfContents returns: null, or the <nav> with the entries of its
\* list
TableOfContents(hs, active) ==
    IF Len(hs) = 0 THEN [null |-> TRUE, entries |-> <<>>]
    ELSE [null |-> FALSE, entries |-> [k \in 1..Len(hs) |-> ListEntry(hs[k], active)]]

----------------------------------------------------------------------------
(* TableOfContents: the effect that watches the heading elements           *)
(* An element is named by its place in the document; 0 names any element   *)
(* that is no longer in the document.                                      *)

MaxEntries == 2

\* the elements that lookups by the ids of the headings find
ElementsOf(doc, hs) == {getElementById(doc, hs[k].id) : k \in 1..Len(hs)} \ {0}

\* headings.forEach: if (element) observer.observe(element)
observeAll(doc, hs) == ElementsOf(doc, hs)

\* the cleanup stopping after the first heading
unobserveAll_firstOnly(targets, doc, hs) ==
    IF Len(hs) = 0 THEN targets ELSE targets \ {getElementById(doc, hs[1].id)}

\* the cleanup: headings.forEach: if (element) observer.unobserve(element)
unobserveAll(targets, doc, hs) == targets \ ElementsOf(doc, hs)

\* the callback of the observer: entries.forEach, from entry k on
RECURSIVE observerCallbackFrom(_, _, _, _)
observerCallbackFrom(entries, k, doc, active) ==
    IF k > Len(entries) THEN active
    ELSE observerCallbackFrom(entries, k + 1, doc,
             IF entries[k].isIntersecting THEN doc[entries[k].target].id ELSE active)

\* the callback without the test of isIntersecting
observerCallback_everyEntry(entries, doc, active) ==
    IF entries[Len(entries)].target = 0 THEN active
    ELSE doc[entries[Len(entries)].target].id

\* the callback stopping at the first intersecting entry
observerCallback_firstWins(entries, doc, active) ==
    LET hits == {i \in 1..Len(entries) : entries[i].isIntersecting}
    IN  IF hits = {} THEN active ELSE doc[entries[MinOf(hits)].target].id

\* the callback clearing activeId when no entry is intersecting
observerCallback_clearWhenNone(entries, doc, active) ==
    observerCallbackFrom(entries, 1, doc,
        IF \A i \in 1..Len(entries) : ~entries[i].isIntersecting THEN <<>> ELSE active)

observerCallback(entries, doc, active) == observerCallbackFrom(entries, 1, doc, active)

\* the batches of entries an observer of the given targets can deliver: up
\* to MaxEntries targets, each once, and none that has left the document is
\* intersecting
EntryBatches(targets) ==
    {b \in UNION {[1..n -> [target : targets, isIntersecting : BOOLEAN]] : n \in 1..MaxEntries} :
        /\ \A i, j \in 1..Len(b) : b[i].target = b[j].target => i = j
        /\ \A i \in 1..Len(b) : b[i].isIntersecting => b[i].target # 0}

\* the posts the reader goes through
Posts ==
    { Hashes(2) \o <<" ", "a", "\n">> \o Hashes(3) \o <<" ", "b">>,
      Hashes(2) \o <<" ", "A", "\n">> \o Hashes(3) \o <<" ", "a">>,
      Hashes(6) \o <<" ", "!">>,
      <<"a">> }

\* the elements of the old document that the renderer can keep for the
\* headings hs: the leading ones whose tag is still the one needed
Reusable(doc, hs) ==
    MaxOf({n \in 0..MinOf({Len(doc), Len(hs)}) : \A k \in 1..n : doc[k].tag = hs[k].level})

\* the names of elements once only the first n elements are left
Detach(targets, n) ==
    {r \in targets : 1 <= r /\ r <= n} \cup
    (IF \E r \in targets : r = 0 \/ r > n THEN {0} ELSE {})

TrackInit ==
    /\ pc = "toc"
    /\ PageIdle
    /\ SlugIdle
    /\ TextIdle
    /\ content \in Posts
    /\ matches = matchAll(content)
    /\ headings = extractHeadings(matches)
    /\ document = <<>>
    /\ pageYOffset = 0
    /\ clicked = 0
    /\ element = 0
    /\ defaultPrevented = FALSE
    /\ scrollCalls = <<>>
    /\ activeId = <<>>
    /\ phase = "mounted"
    /\ effectHeadings = <<>>
    /\ observed = {}
    /\ stale = {}

\* the reader goes to a post: TableOfContents is rendered with the headings
\* of that post, and the renderer keeps some of the elements it can keep,
\* giving them the ids of the new headings, and removes the others
Navigate(post) ==
    /\ pc = "toc"
    /\ phase = "idle"
    /\ content' = post
    /\ matches' = matchAll(post)
    /\ headings' = extractHeadings(matches')
    /\ \E n \in 0..Reusable(document, headings') :
          /\ document' = [k \in 1..n |->
                 [tag |-> document[k].tag,
                  id |-> HeadingComponent(headings'[k].level, StringNode(headings'[k].text)).id,
                  offsetTop |-> document[k].offsetTop]]
          /\ observed' = Detach(observed, n)
          /\ stale' = Detach(stale, n)
    /\ phase' = "committed"
    /\ UNCHANGED <<pc, slugVars, textVars, pageYOffset, clicked, element,
                   defaultPrevented, scrollCalls, activeId, effectHeadings, pageVars>>

\* the cleanup of the effect that ran last, with the headings it closed over
EffectCleanup ==
    /\ pc = "toc"
    /\ phase = "committed"
    /\ observed' = unobserveAll(observed, document, effectHeadings)
    /\ phase' = "cleaned"
    /\ UNCHANGED <<pc, slugVars, headVars, textVars, document, pageYOffset, clicked,
                   element, defaultPrevented, scrollCalls, activeId, effectHeadings,
                   stale, pageVars>>

\* the effect: a new observer, which observes the elements found
EffectSetup ==
    /\ pc = "toc"
    /\ phase \in {"mounted", "cleaned"}
    /\ stale' = stale \cup observed
    /\ observed' = observeAll(document, headings)
    /\ effectHeadings' = headings
    /\ phase' = "idle"
    /\ UNCHANGED <<pc, slugVars, headVars, textVars, document, pageYOffset, clicked,
                   element, defaultPrevented, scrollCalls, activeId, pageVars>>

\* the targets of the observer of the effect that ran last ("current") or
\* of the observers of the effects before it ("earlier")
TargetsOf(watcher) == IF watcher = "current" THEN observed ELSE stale

\* an observer delivers a batch of entries to its callback
WatcherCallback(watcher, entries) ==
    /\ pc = "toc"
    /\ phase = "idle"
    /\ entries \in EntryBatches(TargetsOf(watcher))
    /\ activeId' = observerCallback(entries, document, activeId)
    /\ UNCHANGED <<pc, slugVars, headVars, textVars, document, pageYOffset, clicked,
                   element, defaultPrevented, scrollCalls, phase, effectHeadings,
                   observed, stale, pageVars>>

Watchers == {"current", "earlier"}

TrackNext ==
    \/ RenderHeading
    \/ \E post \in Posts : Navigate(post)
    \/ EffectCleanup
    \/ EffectSetup
    \/ \E w \in Watchers : \E b \in EntryBatches(TargetsOf(w)) : WatcherCallback(w, b)
    \/ \E k \in 1..Len(headings) : OnClick(k)

TrackSpec == TrackInit /\ [][TrackNext]_vars

----------------------------------------------------------------------------
(* Claims about the tracker, checked under TrackSpec                       *)

\* the places of the intersecting entries of a batch
IntersectingIn(b) == {i \in 1..Len(b) : b[i].isIntersecting}

\* the batches any observer, current or earlier, can deliver
AnyBatches == EntryBatches(observed \cup stale)

\* C13: activeId is empty until the first effect has run, and a callback
\* that reports one watched element as intersecting leaves activeId equal
\* to the id of that element.
C13_ActiveIdFollowsReport ==
    /\ activeId = <<>>
    /\ [](phase = "mounted" => activeId = <<>>)
    /\ [][\A b \in AnyBatches : \A w \in Watchers :
              (WatcherCallback(w, b) /\ Cardinality(IntersectingIn(b)) = 1)
                  => \A i \in IntersectingIn(b) :
                        activeId' = document[b[i].target].id]_vars

\* C13 witness: the observer watches the second element, and activeId is
\* the id of that element, which is not the first the document holds.
C13_Witness ==
    /\ phase = "idle"
    /\ stale = {}
    /\ 2 \in observed
    /\ activeId = document[2].id
    /\ activeId # document[1].id

\* C14: after a callback, activeId is the id of the target of the last
\* intersecting entry of the batch, and is what it was when no entry of
\* the batch is intersecting.
C14_LastIntersectingWins ==
    [][\A b \in AnyBatches : \A w \in Watchers :
          WatcherCallback(w, b)
              => activeId' = IF IntersectingIn(b) = {} THEN activeId
                             ELSE document[b[MaxOf(IntersectingIn(b))].target].id]_vars

\* C14 witness: both elements are watched and carry different ids; a batch
\* that reports the second and then the first as intersecting leaves the id
\* of the first.
C14_Witness ==
    /\ phase = "idle"
    /\ observed = {1, 2}
    /\ document[1].id # document[2].id
    /\ activeId = document[1].id
    /\ <<[target |-> 2, isIntersecting |-> TRUE],
         [target |-> 1, isIntersecting |-> TRUE]>> \in EntryBatches(observed)

\* the entries of the rendered list that are marked active
ActiveEntries(hs, active) ==
    {j \in 1..Len(hs) : TableOfContents(hs, active).entries[j].isActive}

\* a batch reports the element rendered for headings[k], and no other
\* element, as intersecting
ReportsOnly(b, k) ==
    /\ k <= Len(document)
    /\ \E i \in 1..Len(b) : b[i].target = k
    /\ \A i \in 1..Len(b) : b[i].isIntersecting <=> b[i].target = k

\* C15 as claimed: when the element of one heading alone is reported
\* intersecting, activeId becomes the id of that heading and the entry of
\* that heading is the only entry marked active.
C15_OnlyItsEntryActive ==
    [][\A b \in AnyBatches : \A w \in Watchers : \A k \in 1..Len(headings) :
          (WatcherCallback(w, b) /\ ReportsOnly(b, k))
              => /\ activeId' = headings[k].id
                 /\ ActiveEntries(headings', activeId') = {k}]_vars

\* C15 amended: when the element of one heading alone is reported
\* intersecting, activeId becomes the id of that heading and the entries
\* marked active are the entries of the headings that carry that id: the
\* entry of that heading alone when no other heading shares its id.
C15_EntriesOfItsIdActive ==
    [][\A b \in AnyBatches : \A w \in Watchers : \A k \in 1..Len(headings) :
          (WatcherCallback(w, b) /\ ReportsOnly(b, k))
              => /\ activeId' = headings[k].id
                 /\ ActiveEntries(headings', activeId') =
                       {j \in 1..Len(headings) : headings[j].id = headings[k].id}
                 /\ (\A j \in 1..Len(headings) : headings[j].id = headings[k].id => j = k)
                       => ActiveEntries(headings', activeId') = {k}]_vars

\* C15 witness: the headings carry different ids, the element of the second
\* is watched, and the entry of the second alone is marked active.
C15_Witness ==
    /\ phase = "idle"
    /\ Len(headings) = 2
    /\ headings[1].id # headings[2].id
    /\ Len(document) = 2
    /\ 2 \in observed
    /\ activeId = headings[2].id
    /\ ActiveEntries(headings, activeId) = {2}

\* C16: once the cleanup of an effect has run, the observer of that effect
\* observes no element, whatever became of the document since the effect.
C16_TeardownReleasesAll ==
    phase = "cleaned" => observed = {}

\* C17: a callback of an observer of an earlier effect, one made for the
\* headings of a post the reader has left, never changes activeId.
C17_EarlierWatcherSilent ==
    [][\A b \in EntryBatches(stale) :
          WatcherCallback("earlier", b) => activeId' = activeId]_vars

\* no element of the document carries the id of headings[k] as its ID
TargetAbsent(k) ==
    \/ headings[k].id = <<>>
    \/ \A j \in 1..Len(document) : document[j].id # headings[k].id

\* C18: a click on an entry whose target element is absent requests no
\* scroll, finds no element, and leaves activeId, the effect, the observers,
\* the document, the scroll position and the headings as they were.
C18_AbsentTargetNoOp ==
    [][\A k \in 1..Len(headings) :
          (OnClick(k) /\ TargetAbsent(k))
              => /\ scrollCalls' = <<>>
                 /\ element' = 0
                 /\ UNCHANGED <<trackVars, document, pageYOffset, headVars>>]_vars

\* C18 witness: with an element watched and activeId set, the entry of a
\* heading whose element is not in the document was clicked, and no scroll
\* was requested.
C18_Witness ==
    /\ clicked # 0
    /\ clicked <= Len(headings)
    /\ TargetAbsent(clicked)
    /\ element = 0
    /\ defaultPrevented
    /\ scrollCalls = <<>>
    /\ activeId # <<>>
    /\ observed # {}

\* the indent steps a class of the list stands for
IndentSteps(className) ==
    CASE className = "pl-0" -> 0
      [] className = "pl-3" -> 1
      [] className = "pl-6" -> 2
      [] className = "pl-9" -> 3
      [] OTHER -> -1

\* C20: every entry of the list is indented by as many steps as the level
\* of its heading exceeds 2.
C20_IndentByLevel ==
    \A k \in 1..Len(headings) :
        IndentSteps(TableOfContents(headings, activeId).entries[k].className)
            = headings[k].level - 2

\* C21: with no heading TableOfContents renders nothing, and with a
\* heading it renders a list.
C21_NothingWhenEmpty ==
    LET out == TableOfContents(headings, activeId)
    IN  /\ Len(headings) = 0 => (out.null /\ out.entries = <<>>)
        /\ Len(headings) > 0 => (~out.null /\ out.entries # <<>>)

\* C21 witness: the reader came from a post with headings, where activeId
\* was set, to a post without one, and nothing is rendered.
C21_Witness ==
    /\ phase = "idle"
    /\ headings = <<>>
    /\ activeId # <<>>
    /\ TableOfContents(headings, activeId).null

C27_ActiveIdOfCurrentHeadings ==
    \/ activeId = <<>>
    \/ \E k \in 1..Len(headings) : headings[k].id = activeId

\* C28: as long as no callback has set activeId, no entry of the list is
\* marked active.
C28_NoneActiveAtFirst ==
    activeId = <<>> => ActiveEntries(headings, activeId) = {}

\* a step in which an effect runs and makes its subscriptions
SetupStep == phase # "idle" /\ phase' = "idle"

\* C24: an effect makes its subscriptions only at the mount or after the
\* cleanup of the effect before it has run, by when the observer of that
\* effect has let go of every element the ids of its headings still find;
\* and a callback is delivered only by an observer to which its elements
\* were subscribed, never while an effect is due.
C24_TeardownBeforeSetup ==
    [][/\ SetupStep =>
             /\ phase \in {"mounted", "cleaned"}
             /\ phase = "mounted" => (observed = {} /\ effectHeadings = <<>>)
             /\ \A k \in 1..Len(effectHeadings) :
                   \A j \in 1..Len(document) :
                       (/\ effectHeadings[k].id # <<>>
                        /\ document[j].id = effectHeadings[k].id
                        /\ \A i \in 1..(j - 1) : document[i].id # document[j].id)
                           => j \notin observed
       /\ \A w \in Watchers : \A b \in AnyBatches :
             WatcherCallback(w, b) =>
                 /\ phase = "idle"
                 /\ \A i \in 1..Len(b) : b[i].target \in TargetsOf(w)]_vars

\* C24 witness: the second entry of a post whose two headings share an id
\* was clicked, which found the first element; the reader then went to a
\* post with two ids, the cleanup let go of every element, and the new
\* effect has subscribed both elements.
C24_Witness ==
    /\ phase = "idle"
    /\ stale = {}
    /\ observed = {1, 2}
    /\ Len(headings) = 2
    /\ headings[1].id # headings[2].id
    /\ clicked = 2
    /\ element = 1
    /\ activeId = headings[1].id

\* C25: activeId changes only in a callback that holds an intersecting
\* entry: a click, a callback without an intersecting entry, the effect,
\* its cleanup, a change of the headings and the rendering of an element
\* leave it as it was.
C25_OnlyCallbackWrites ==
    [][/\ \A k \in 1..Len(headings) : OnClick(k) => activeId' = activeId
       /\ \A w \in Watchers : \A b \in AnyBatches :
             (WatcherCallback(w, b) /\ IntersectingIn(b) = {}) => activeId' = activeId
       /\ EffectSetup => activeId' = activeId
       /\ EffectCleanup => activeId' = activeId
       /\ (\E post \in Posts : Navigate(post)) => activeId' = activeId
       /\ RenderHeading => activeId' = activeId
       /\ activeId' # activeId =>
             \E w \in Watchers : \E b \in AnyBatches :
                 WatcherCallback(w, b) /\ IntersectingIn(b) # {}]_vars

\* C25 witness: activeId was set, the reader went to another post, and a
\* click there scrolled to an element; activeId is still the id set before.
C25_Witness ==
    /\ phase = "idle"
    /\ clicked # 0
    /\ element # 0
    /\ scrollCalls # <<>>
    /\ activeId # <<>>
    /\ \A k \in 1..Len(headings) : headings[k].id # activeId
    /\ \E j \in 1..Len(document) : \E k \in 1..Len(headings) : document[j].id = headings[k].id

----------------------------------------------------------------------------
(* The post page: generateStaticParams and BlogPost                        *)

\* what "(mdx?|markdown)" can match after the "."
PostExtensions ==
    {<<"m", "d">>, <<"m", "d", "x">>, <<"m", "a", "r", "k", "d", "o", "w", "n">>}

\* where /\.(mdx?|markdown)$/ matches in a name: the starts of the suffixes
\* made of "." and one of the extensions
postRegexMatches(f) ==
    {i \in 1..Len(f) : f[i] = "." /\ SubSeq(f, i + 1, Len(f)) \in PostExtensions}

\* /\.(mdx?|markdown)$/.test(f)
postRegexTest(f) == postRegexMatches(f) # {}

\* file.replace(/\.(mdx?|markdown)$/, ""): the leftmost match is removed
postRegexStrip(f) ==
    IF postRegexMatches(f) = {} THEN f ELSE SubSeq(f, 1, MinOf(postRegexMatches(f)) - 1)

\* files.filter(...).map(...)
generateStaticParams(fs) ==
    LET kept == SelectSeq(fs, postRegexTest)
    IN  [k \in 1..Len(kept) |-> [slug |-> postRegexStrip(kept[k])]]

\* fs.readFile(path.join(postsDir, `${slug}.mdx`)) finds a file
readFileFinds(fs, name) ==
    \E k \in 1..Len(fs) : fs[k] = name \o <<".", "m", "d", "x">>

FileNames ==
    { <<"a", ".", "m", "d", "x">>,
      <<"a", ".", "m", "d">>,
      <<"b", ".", "m", "a", "r", "k", "d", "o", "w", "n">>,
      <<"b", ".", "m", "d", "x">>,
      <<"c", ".", "t", "x", "t">>,
      <<"c", ".", "m", "d", "x", ".", "m", "d">> }

\* the listings of a directory of up to MaxFiles files
Listings ==
    {fs \in UNION {[1..n -> FileNames] : n \in 0..MaxFiles} :
        \A i, j \in 1..Len(fs) : fs[i] = fs[j] => i = j}

PageInit ==
    /\ pc = "page_start"
    /\ SlugIdle
    /\ HeadIdle
    /\ TextIdle
    /\ TocIdle
    /\ files \in Listings
    /\ staticParams = <<>>
    /\ slugParam = <<>>
    /\ page = "none"

\* the build asks for the params of the pages to generate
GenerateStaticParams ==
    /\ pc = "page_start"
    /\ staticParams' = generateStaticParams(files)
    /\ pc' = "page_params"
    /\ UNCHANGED <<slugVars, headVars, textVars, tocVars, files, slugParam, page>>

\* the build renders the page of the k-th of the params
BlogPost(k) ==
    /\ pc = "page_params"
    /\ slugParam' = staticParams[k].slug
    /\ page' = IF readFileFinds(files, slugParam') THEN "article" ELSE "notFound"
    /\ UNCHANGED <<pc, slugVars, headVars, textVars, tocVars, files, staticParams>>

PageNext ==
    \/ GenerateStaticParams
    \/ \E k \in 1..Len(staticParams) : BlogPost(k)

PageSpec == PageInit /\ [][PageNext]_vars

\* C30: the page of every slug that generateStaticParams returned is the
\* article of the post, never notFound.
C30_EveryParamRenders ==
    page # "none" => page = "article"

----------------------------------------------------------------------------
(* Everything together: a run is a run of one of the parts                 *)

Init ==
    SlugInit \/ HeadInit \/ TextInit \/ TextRunInit \/ CompInit \/ TocInit \/ TrackInit
        \/ PageInit

Next ==
    SlugNext \/ HeadNext \/ TextNext \/ TextRunNext \/ CompNext \/ TocNext \/ TrackNext
        \/ PageNext

Spec == Init /\ [][Next]_vars

====
